---- MODULE Spec2Model ----
(***************************************************************************)
(* Model of netlify/edge-functions/ai-proxy.ts: the edge handler that      *)
(* classifies a visitor, and for an AI visitor merges the fragment of the  *)
(* secondary store (ALT origin) into the page of the primary origin.       *)
(*                                                                         *)
(* Texts (user-agent, header values, HTML) are sequences of tokens: a      *)
(* token is the smallest piece any pattern of the source looks at.         *)
(* Handler invocations are frames of a stack: a fetchWithHost call to the  *)
(* site's own origin is served by a nested invocation of the handler; a    *)
(* fetch(request) and a fetch to any other origin are served by the        *)
(* transport, whose answer is a nondeterministic choice.                   *)
(*                                                                         *)
(* Three specifications: Spec runs the handler, SpecClassifier runs it up  *)
(* to the routing of the visitor on a larger set of user-agents, and       *)
(* SpecHelpers calls fetchWithHost, injectHTML and finalizeResponse on     *)
(* their own, on arguments the handler passes and on others.               *)
(***************************************************************************)
EXTENDS Integers, Sequences, FiniteSets, TLC

(* ───────────── bounds ───────────── *)

\* Deepest nesting of handler invocations the model follows.
MaxDepth == 3

\* Longest user-agent (in tokens) drawn by the classifier specification.
MaxUALen == 2

\* Longest document (in tokens) handed to injectHTML on its own.
MaxDocLen == 3

(* ───────────── text primitives ───────────── *)

\* A header that is absent: Headers.get returns null.
Null == "<null>"

\* String.prototype.toLowerCase on the tokens of the model.
Lower(t) ==
  CASE t = "ChatGPT-User/1.0" -> "chatgpt-user/1.0"
    [] t = "GPTBot/1.0" -> "gptbot/1.0"
    [] t = "GPTBot/1.2" -> "gptbot/1.2"
    [] t = "Google-Extended" -> "google-extended"
    [] t = "BingPreview" -> "bingpreview"
    [] t = "PerplexityBot" -> "perplexitybot"
    [] t = "Claude-User" -> "claude-user"
    [] t = "Claude-Web" -> "claude-web"
    [] t = "ClaudeBot" -> "claudebot"
    [] t = "CLAUDEBOT" -> "claudebot"
    [] t = "Mozilla/5.0" -> "mozilla/5.0"
    [] t = "ChatGPT" -> "chatgpt"
    [] t = "CHATGPT" -> "chatgpt"
    [] t = "GPTBot" -> "gptbot"
    [] t = "</BODY>" -> "</body>"
    [] t = "</Body>" -> "</body>"
    [] OTHER -> t

\* RegExp.prototype.test for a case-insensitive literal pattern: some token
\* of the text is the pattern, whatever its case.
RegexTestI(pat, text) == \E i \in 1..Len(text) : Lower(text[i]) = pat

\* Index of the first token matching the case-insensitive pattern, 0 if none.
FirstMatchI(pat, text) ==
  IF RegexTestI(pat, text)
  THEN CHOOSE i \in 1..Len(text) :
         /\ Lower(text[i]) = pat
         /\ \A j \in 1..(i - 1) : Lower(text[j]) # pat
  ELSE 0

\* String.prototype.trim: leading and trailing blanks removed.
RECURSIVE TrimLeft(_)
TrimLeft(s) == IF s # <<>> /\ Head(s) = " " THEN TrimLeft(Tail(s)) ELSE s

RECURSIVE TrimRight(_)
TrimRight(s) ==
  IF s # <<>> /\ s[Len(s)] = " " THEN TrimRight(SubSeq(s, 1, Len(s) - 1)) ELSE s

Trim(s) == TrimRight(TrimLeft(s))

\* String.prototype.endsWith on the last token.
EndsWith(s, suffix) == s # <<>> /\ s[Len(s)] = suffix

\* URLSearchParams.get: the value of the first pair with that key, else null.
SearchGet(search, key) ==
  IF \E i \in 1..Len(search) : search[i][1] = key
  THEN search[CHOOSE i \in 1..Len(search) :
                /\ search[i][1] = key
                /\ \A j \in 1..(i - 1) : search[j][1] # key][2]
  ELSE Null

\* String.prototype.replace(text, "") for a literal: the first occurrence of
\* the token is removed.
RemoveFirst(s, tok) ==
  IF \E i \in 1..Len(s) : s[i] = tok
  THEN LET k == CHOOSE i \in 1..Len(s) :
                  s[i] = tok /\ \A j \in 1..(i - 1) : s[j] # tok
       IN SubSeq(s, 1, k - 1) \o SubSeq(s, k + 1, Len(s))
  ELSE s

(* ───────────── configuration (lines 16-39) ───────────── *)

\* Values Deno.env.get("ORGANIZATION_ID") || "" can take: unset or empty,
\* blank, and set.
OrgIds == { <<>>, <<" ">>, <<"acme">> }

SiteOrigin == [scheme |-> "https", host |-> "site.example"]
OtherOrigin == [scheme |-> "http", host |-> "other.example"]

\* URL.origin of a URL whose scheme has no origin (mailto:, data:): "null".
OpaqueOrigin == [scheme |-> "null", host |-> ""]
S3Origin == [scheme |-> "https", host |-> "salespeak-public-serving.s3.amazonaws.com"]
ApiOrigin == [scheme |-> "https", host |-> "22i9zfydr3.execute-api.us-west-2.amazonaws.com"]

\* ALT_ORIGIN: the S3 origin followed by the organization id as path prefix.
ALT_ORIGIN(org) == [origin |-> S3Origin, prefix |-> <<"/">> \o org]

EXTERNAL_API_URL ==
  [origin |-> ApiOrigin, path |-> <<"/prod/event_stream">>, search |-> <<>>]

CHATGPT_UA_RE == "chatgpt-user/1.0"
GPTBOT_UA_RE == "gptbot/1.0"
GOOGLE_EXTENDED_RE == "google-extended"
BING_PREVIEW_RE == "bingpreview"
PERPLEXITY_UA_RE == "perplexitybot"
CLAUDE_USER_RE == "claude-user"
CLAUDE_WEB_RE == "claude-web"
CLAUDE_BOT_RE == "claudebot"

(* ───────────── requests and responses ───────────── *)

\* A URL: origin, pathname (tokens) and search (sequence of <<key, value>>).
MkURL(origin, path, search) == [origin |-> origin, path |-> path, search |-> search]

\* A Request as the handler reads it: method, whether it carries a body
\* stream, the user-agent, X-Internal-Fetch and Host headers, and the URL.
MkRequest(method, hasBody, ua, bypassHdr, host, url) ==
  [method |-> method, hasBody |-> hasBody, ua |-> ua, bypassHdr |-> bypassHdr,
   host |-> host, url |-> url]

\* A Response: status, Content-Type (tokens, <<>> when absent), Location,
\* Vary (tokens, <<>> when absent), Cache-Control, Pragma, Content-Length
\* (Null when absent) and the body text.
MkResponse(status, ct, loc, vary, cc, pragma, cl, body) ==
  [status |-> status, ct |-> ct, loc |-> loc, vary |-> vary, cc |-> cc,
   pragma |-> pragma, cl |-> cl, body |-> body]

NoResp == MkResponse(0, <<>>, Null, <<>>, Null, Null, Null, <<>>)

\* What a fetch or the handler settles with: a response, or a rejection.
MkResult(kind, resp) == [kind |-> kind, resp |-> resp]
NoResult == MkResult("none", NoResp)
Rejected == MkResult("error", NoResp)

\* Response.ok true for every status.
MutRespOk(resp) == TRUE

\* Response.ok
RespOk(resp) == resp.status >= 200 /\ resp.status <= 299

\* The Response constructor throws when a body is given with a null body
\* status (lines 194-198 give it the origin's status).
NullBodyStatus(status) == status \in {101, 103, 204, 205, 304}

(* ───────────── the world outside the handler ───────────── *)

DocWithBody == <<"<html>", "<p>X</p>", "</body>", "</html>">>
DocUpperBody == <<"<p>X</p>", "</BODY>", "</body>">>
DocNoBody == <<"<p>X</p>">>

Locs ==
  {Null, "", "/new-path", "http://other.example/moved", "http://",
   "mailto:ops@site.example"}

\* Responses an origin server can give.
OriginResponses ==
  { MkResponse(200, <<"text/html">>, Null, <<>>, Null, Null, "120", DocWithBody),
    MkResponse(200, <<"text/html", "; charset=utf-8">>, Null, <<"Accept-Encoding">>,
               "public, max-age=600", Null, "64", DocNoBody),
    MkResponse(200, <<"application/json">>, Null, <<"User-Agent">>, Null, Null,
               "2", <<"{}">>),
    MkResponse(404, <<"text/html">>, Null, <<>>, Null, Null, "120", DocUpperBody),
    MkResponse(304, <<"text/html">>, Null, <<>>, "public, max-age=600", Null, Null,
               <<>>) }
  \cup { MkResponse(302, <<"text/html">>, l, <<>>, Null, Null, Null, DocNoBody) :
           l \in Locs }

\* What the platform answers for an invocation of the handler that rejected.
PlatformError ==
  MkResponse(500, <<"text/html">>, Null, <<>>, Null, Null, Null, DocNoBody)

\* Documents of the secondary store.
Fragment == "<section id=optimized-for-ai>ABC</section>"
AltTexts ==
  { <<>>, <<"<p id=intro>hi</p>">>, <<"<p id=intro>hi</p>", Fragment, "<p id=end></p>">> }

\* Responses of the secondary store.
AltResponses ==
  { MkResponse(200, <<"text/html">>, Null, <<>>, Null, Null, Null, t) : t \in AltTexts }
  \cup { MkResponse(403, <<"application/xml">>, Null, <<>>, Null, Null, Null,
                    <<"<p id=intro>hi</p>", Fragment>>) }

\* new URL(loc, base): the URLs the model's Location values resolve to.
URLParses(loc) == loc # "http://"

ResolveURL(loc, base) ==
  CASE loc = "/new-path" -> MkURL(base, <<"/new-path">>, <<>>)
    [] loc = "http://other.example/moved" -> MkURL(OtherOrigin, <<"/moved">>, <<>>)
    [] loc = "mailto:ops@site.example" -> MkURL(OpaqueOrigin, <<"ops@site.example">>, <<>>)
    [] OTHER -> MkURL(base, <<"/">>, <<>>)

(* ───────────── helper functions (lines 214-345) ───────────── *)

\* determineBotType with the Claude crawler tried before the others.
MutDetermineBotType(isChatGPT, isGPTBot, isGoogleExtended, isBingPreview, isPerplexity, isClaudeUser, isClaudeWeb, isClaudeBot) ==
  IF isClaudeBot THEN "ClaudeBot"
  ELSE IF isChatGPT THEN "ChatGPT-User"
  ELSE IF isGPTBot THEN "GPTBot"
  ELSE IF isGoogleExtended THEN "Google-Extended"
  ELSE IF isBingPreview THEN "BingPreview"
  ELSE IF isPerplexity THEN "PerplexityBot"
  ELSE IF isClaudeUser THEN "Claude-User"
  ELSE IF isClaudeWeb THEN "Claude-Web"
  ELSE "Unknown"

\* determineBotType, lines 219-238.
determineBotType(isChatGPT, isGPTBot, isGoogleExtended, isBingPreview, isPerplexity, isClaudeUser, isClaudeWeb, isClaudeBot) ==
  IF isChatGPT THEN "ChatGPT-User"
  ELSE IF isGPTBot THEN "GPTBot"
  ELSE IF isGoogleExtended THEN "Google-Extended"
  ELSE IF isBingPreview THEN "BingPreview"
  ELSE IF isPerplexity THEN "PerplexityBot"
  ELSE IF isClaudeUser THEN "Claude-User"
  ELSE IF isClaudeWeb THEN "Claude-Web"
  ELSE IF isClaudeBot THEN "ClaudeBot"
  ELSE "Unknown"

\* The origin argument of fetchWithHost as the string the code concatenates:
\* scheme, host, and for ALT_ORIGIN the path prefix.
OriginStr(base) ==
  <<IF base.origin.scheme = "https" THEN "https://" ELSE "http://", base.origin.host>>
  \o base.prefix

\* url.origin as a fetchWithHost origin argument.
OriginArg(origin) == [origin |-> origin, prefix |-> <<>>]

\* Lines 256-259 without headers.set: the header stays as the inbound
\* request has it.
MutBypassHeaderOf(req, bypassEdgeFunction) == req.bypassHdr

\* Lines 256-259 with the test reduced to its second operand: the header is
\* set only when bypassEdgeFunction is true.
MutBypassWhenAsked(req, bypassEdgeFunction) ==
  IF bypassEdgeFunction THEN "true" ELSE req.bypassHdr

\* Lines 256-259: the loop-prevention header of the outbound request.
BypassHeaderOf(req, bypassEdgeFunction) == "true"

\* Lines 261-263: the Host header of the outbound request.
HostHeaderOf(base, req, fixHost) ==
  IF fixHost THEN RemoveFirst(OriginStr(base), "https://") ELSE req.host

\* Line 268: the body of the outbound request.
BodyOf(req) == IF req.method = "GET" \/ req.method = "HEAD" THEN FALSE ELSE req.hasBody

\* Line 251: new URL(origin + pathname + search) throws when the origin
\* string is "null".
ProxiedParses(base) == base.origin # OpaqueOrigin

\* Line 269: the redirect mode of the outbound request.
RedirectMode == "manual"

\* fetchWithHost, lines 243-273: the request it hands to fetch.
fetchWithHost(base, originalURL, req, fixHost, bypassEdgeFunction) ==
  MkRequest(req.method, BodyOf(req), req.ua,
            BypassHeaderOf(req, bypassEdgeFunction),
            HostHeaderOf(base, req, fixHost),
            MkURL(base.origin, base.prefix \o originalURL.path, originalURL.search))

\* isHTMLResponse, lines 278-281.
isHTMLResponse(resp) == \E i \in 1..Len(resp.ct) : resp.ct[i] = "text/html"

\* The id attribute of an element token.
ElemId(tok) ==
  CASE tok = Fragment -> "optimized-for-ai"
    [] tok = "<p id=intro>hi</p>" -> "intro"
    [] tok = "<p id=end></p>" -> "end"
    [] OTHER -> ""

\* extractElementOuterHTMLById, lines 287-294: the first element with the id.
extractElementOuterHTMLById(html, id) ==
  IF \E i \in 1..Len(html) : ElemId(html[i]) = id
  THEN <<html[CHOOSE i \in 1..Len(html) :
                /\ ElemId(html[i]) = id
                /\ \A j \in 1..(i - 1) : ElemId(html[j]) # id]>>
  ELSE <<>>

\* The replacement string of String.prototype.replace: $$ is a dollar sign and
\* $& is the matched text.
RECURSIVE ExpandReplacement(_, _)
ExpandReplacement(repl, matched) ==
  IF repl = <<>> THEN <<>>
  ELSE (CASE Head(repl) = "$&" -> <<matched>>
          [] Head(repl) = "$$" -> <<"$">>
          [] OTHER -> <<Head(repl)>>)
       \o ExpandReplacement(Tail(repl), matched)

\* injectHTML, lines 308-317.
injectHTML(originalHTML, injectedHTML) ==
  LET k == FirstMatchI("</body>", originalHTML)
  IN IF k > 0
     THEN SubSeq(originalHTML, 1, k - 1)
          \o ExpandReplacement(injectedHTML \o <<"</body>">>, originalHTML[k])
          \o SubSeq(originalHTML, k + 1, Len(originalHTML))
     ELSE originalHTML \o injectedHTML

\* finalizeResponse with line 332 setting Vary to User-Agent whatever it was.
MutFinalizeResponse(resp, varyUA, aiVariant) ==
  [resp EXCEPT
     !.cl = Null,
     !.vary = IF varyUA THEN <<"User-Agent">> ELSE resp.vary,
     !.cc = IF aiVariant THEN "private, no-store, max-age=0" ELSE resp.cc,
     !.pragma = IF aiVariant THEN "no-cache" ELSE resp.pragma]

\* finalizeResponse, lines 322-345.
finalizeResponse(resp, varyUA, aiVariant) ==
  [resp EXCEPT
     !.cl = Null,
     !.vary = IF varyUA
              THEN (IF resp.vary # <<>> THEN resp.vary \o <<"User-Agent">>
                    ELSE <<"User-Agent">>)
              ELSE resp.vary,
     !.cc = IF aiVariant THEN "private, no-store, max-age=0" ELSE resp.cc,
     !.pragma = IF aiVariant THEN "no-cache" ELSE resp.pragma]

(* ───────────── state ───────────── *)

VARIABLES
  org,     \* ORGANIZATION_ID, read once when the module loads (line 19)
  stack,   \* the handler invocations in progress, the client's first
  log,     \* every outbound fetch and handler milestone, in order
  tel,     \* the detached telemetry POST: none, pending, ok, failed
  call     \* a call of a helper function on its own: arguments and return

vars == <<org, stack, log, tel, call>>

\* No helper function is called on its own.
NoCall == [fn |-> "none", args |-> <<>>, returned |-> FALSE, ret |-> <<>>]

Top == stack[Len(stack)]
Depth == Len(stack)

\* A handler invocation at line 42: its request, whether the request's body
\* stream has been handed to a fetch, and the handler's locals.
NewFrame(req) ==
  [req |-> req, bodyUsed |-> FALSE, pc |-> "bypass",
   isChatGPT |-> FALSE, isAIVisitor |-> FALSE, botType |-> "",
   injectedHTML |-> <<>>, origResp |-> NoResp, result |-> NoResult]

SetTop(f) == [stack EXCEPT ![Len(stack)] = f]

Goto(pc) == stack' = SetTop([Top EXCEPT !.pc = pc])

\* An entry of the log: what happened, in which invocation (its depth), the
\* request it concerns, for a fetch whether the request could be built and
\* sent, and for a settled fetch what it settled with.
Event(ev, depth, req, sent, outcome) ==
  [ev |-> ev, depth |-> depth, req |-> req, sent |-> sent, outcome |-> outcome]

Logged(ev, req, sent) == Append(log, Event(ev, Depth, req, sent, NoResult))

(* ───────────── inputs ───────────── *)

UATokens ==
  { "Mozilla/5.0", "ChatGPT-User/1.0", "GPTBot/1.0", "GPTBot/1.2", "GPTBot",
    "Google-Extended", "BingPreview", "PerplexityBot", "Claude-User",
    "Claude-Web", "ClaudeBot", "CLAUDEBOT" }

\* User-agents of at most n tokens.
UAsUpTo(n) == UNION { [1..k -> UATokens] : k \in 0..n }

\* User-agents of the handler specification.
HandlerUAs == { <<"Mozilla/5.0">>, <<"Mozilla/5.0", "GPTBot/1.0">> }

Searches ==
  { <<>>, << <<"user-agent", "chatgpt">> >>, << <<"user-agent", "ChatGPT">> >>,
    << <<"user-agent", "GPTBot">> >>, << <<"page", "chatgpt">> >> }

HandlerSearches == { <<>>, << <<"user-agent", "ChatGPT">> >> }

Paths == { <<"/page">>, <<"/robots", ".txt">>, <<"/feed", ".xml">> }

\* Method and whether a body stream comes with it.
Shapes == { <<"GET", FALSE>>, <<"HEAD", FALSE>>, <<"POST", FALSE>>, <<"POST", TRUE>> }

BypassValues == { Null, "true", "false" }

ClientRequests ==
  { MkRequest(sh[1], sh[2], ua, b, <<"site.example">>, MkURL(SiteOrigin, p, q)) :
      sh \in Shapes, ua \in HandlerUAs, b \in BypassValues, p \in Paths,
      q \in HandlerSearches }

ClassifierRequests ==
  { MkRequest("GET", FALSE, ua, Null, <<"site.example">>,
              MkURL(SiteOrigin, <<"/page">>, q)) :
      ua \in UAsUpTo(MaxUALen), q \in Searches }

Init ==
  /\ org \in OrgIds
  /\ \E req \in ClientRequests : stack = <<NewFrame(req)>>
  /\ log = <<>>
  /\ tel = "none"
  /\ call = NoCall

InitClassifier ==
  /\ org = <<"acme">>
  /\ \E req \in ClassifierRequests : stack = <<NewFrame(req)>>
  /\ log = <<>>
  /\ tel = "none"
  /\ call = NoCall

(* ───────────── fetch(request): the verbatim pass-through ───────────── *)

\* A request whose body stream was handed to an earlier fetch cannot be
\* fetched again: fetch rejects with a TypeError before anything is sent.
BodyUnusable(f, out) == out.hasBody /\ f.bodyUsed

\* What fetch(request) can settle with.
VerbatimOutcomes(f) ==
  IF BodyUnusable(f, f.req) THEN {Rejected}
  ELSE {Rejected} \cup { MkResult("pass", r) : r \in OriginResponses }

\* return fetch(request): the invocation ends with whatever the fetch
\* settles with (lines 48, 58, 63, 139, 207, 210).
PassThrough ==
  /\ \E o \in VerbatimOutcomes(Top) :
       /\ stack' = SetTop([Top EXCEPT !.pc = "done", !.result = o,
                                      !.bodyUsed = Top.bodyUsed \/ Top.req.hasBody])
       /\ log' = Append(log, Event("verbatim", Depth, Top.req,
                                   ~BodyUnusable(Top, Top.req), o))
  /\ UNCHANGED <<org, call, tel>>

(* ───────────── the handler, lines 41-212 ───────────── *)

\* Line 44 without toLowerCase.
MutQsAgent(url) == SearchGet(url.search, "user-agent")

\* Line 44: url.searchParams.get("user-agent")?.toLowerCase()
qsAgent(url) ==
  LET v == SearchGet(url.search, "user-agent") IN IF v = Null THEN Null ELSE Lower(v)

\* Line 47 with the header compared to another literal than the one
\* fetchWithHost sets.
MutIsInternalFetch(req) == req.bypassHdr = "1"

\* Line 47: the loop-prevention marker is on the inbound request.
IsInternalFetch(req) == req.bypassHdr = "true"

\* Line 52 without the trim test.
MutConfigMissing(o) == o = <<>>

\* Line 52: ORGANIZATION_ID is unset, empty or blank.
ConfigMissing(o) == o = <<>> \/ Trim(o) = <<>>

\* Line 62 with the .txt test only.
MutIsStaticPath(url) == EndsWith(url.path, ".txt")

\* Line 62: the path ends in .txt or .xml.
IsStaticPath(url) == EndsWith(url.path, ".txt") \/ EndsWith(url.path, ".xml")

\* Lines 67-74: the detection flags.
IsChatGPT(req) == RegexTestI(CHATGPT_UA_RE, req.ua) \/ qsAgent(req.url) = "chatgpt"
IsGPTBot(req) == RegexTestI(GPTBOT_UA_RE, req.ua)
IsGoogleExtended(req) == RegexTestI(GOOGLE_EXTENDED_RE, req.ua)
IsBingPreview(req) == RegexTestI(BING_PREVIEW_RE, req.ua)
IsPerplexity(req) == RegexTestI(PERPLEXITY_UA_RE, req.ua)
IsClaudeUser(req) == RegexTestI(CLAUDE_USER_RE, req.ua)
IsClaudeWeb(req) == RegexTestI(CLAUDE_WEB_RE, req.ua)
IsClaudeBot(req) == RegexTestI(CLAUDE_BOT_RE, req.ua)

\* Lines 76-84.
IsAIVisitor(req) ==
  \/ IsChatGPT(req) \/ IsGPTBot(req) \/ IsGoogleExtended(req) \/ IsBingPreview(req)
  \/ IsPerplexity(req) \/ IsClaudeUser(req) \/ IsClaudeWeb(req) \/ IsClaudeBot(req)

\* Lines 97-106: the bot type of the telemetry event.
BotTypeOf(req) ==
  determineBotType(IsChatGPT(req), IsGPTBot(req), IsGoogleExtended(req),
                   IsBingPreview(req), IsPerplexity(req), IsClaudeUser(req),
                   IsClaudeWeb(req), IsClaudeBot(req))

\* Lines 126-133 with X-Internal-Fetch: true among the headers.
MutTelemetryRequest ==
  MkRequest("POST", TRUE, <<"PostmanRuntime/7.32.2">>, "true", <<>>, EXTERNAL_API_URL)

\* Lines 126-133: the telemetry POST.
TelemetryRequest ==
  MkRequest("POST", TRUE, <<"PostmanRuntime/7.32.2">>, Null, <<>>, EXTERNAL_API_URL)

\* Line 170: the response is a redirect.
IsRedirect(resp) == resp.status >= 300 /\ resp.status < 400

\* Line 172 without the test of the Location header.
MutHasLocation(resp) == TRUE

\* Line 172: if (loc), with loc the Location header or null.
HasLocation(resp) == resp.loc # Null /\ resp.loc # ""

\* Line 188 without the isHTMLResponse test.
MutShouldInject(injectedHTML, resp) == injectedHTML # <<>>

\* Line 188: inject when there is a fragment and the origin response is HTML.
ShouldInject(injectedHTML, resp) == injectedHTML # <<>> /\ isHTMLResponse(resp)

\* Lines 190-201 with aiVariant false in the call of finalizeResponse.
MutInjectedResponse(origResp, injectedHTML) ==
  finalizeResponse([origResp EXCEPT !.body = injectHTML(origResp.body, injectedHTML)],
                   TRUE, FALSE)

\* Lines 190-201: the response the injection branch builds.
InjectedResponse(origResp, injectedHTML) ==
  finalizeResponse([origResp EXCEPT !.body = injectHTML(origResp.body, injectedHTML)],
                   TRUE, TRUE)

\* Lines 46-49.
BypassCheck ==
  /\ Top.pc = "bypass"
  /\ IF IsInternalFetch(Top.req)
     THEN PassThrough
     ELSE Goto("config") /\ UNCHANGED <<org, call, log, tel>>

\* Lines 51-59.
ConfigCheck ==
  /\ Top.pc = "config"
  /\ IF ConfigMissing(org)
     THEN PassThrough
     ELSE Goto("static") /\ UNCHANGED <<org, call, log, tel>>

\* Lines 61-64.
StaticCheck ==
  /\ Top.pc = "static"
  /\ IF IsStaticPath(Top.req.url)
     THEN PassThrough
     ELSE Goto("detect") /\ UNCHANGED <<org, call, log, tel>>

\* Lines 66-93: detect AI visitors.
Detect ==
  /\ Top.pc = "detect"
  /\ stack' = SetTop([Top EXCEPT !.pc = "log",
                                 !.isChatGPT = IsChatGPT(Top.req),
                                 !.isAIVisitor = IsAIVisitor(Top.req)])
  /\ log' = Logged("classify", Top.req, FALSE)
  /\ UNCHANGED <<org, call, tel>>

\* Lines 95-134 without the test of isAIVisitor at line 96.
MutLogVisit ==
  /\ Top.pc = "log"
  /\ stack' = SetTop([Top EXCEPT !.pc = "route", !.botType = BotTypeOf(Top.req)])
  /\ log' = Logged("telemetry", TelemetryRequest, TRUE)
  /\ tel' = "pending"
  /\ UNCHANGED <<org, call>>

\* Lines 95-134: for an AI visitor the telemetry POST is dispatched and not
\* awaited.
LogVisit ==
  /\ Top.pc = "log"
  /\ IF Top.isAIVisitor
     THEN /\ stack' = SetTop([Top EXCEPT !.pc = "route", !.botType = BotTypeOf(Top.req)])
          /\ log' = Logged("telemetry", TelemetryRequest, TRUE)
          /\ tel' = "pending"
          /\ UNCHANGED <<org, call>>
     ELSE Goto("route") /\ UNCHANGED <<org, call, log, tel>>

\* Lines 136-140 without the return for non-AI visitors.
MutRoute ==
  /\ Top.pc = "route"
  /\ Goto("alt")
  /\ UNCHANGED <<org, call, log, tel>>

\* Lines 136-140.
Route ==
  /\ Top.pc = "route"
  /\ IF ~Top.isAIVisitor
     THEN PassThrough
     ELSE Goto("alt") /\ UNCHANGED <<org, call, log, tel>>

\* The detached POST settles; a rejection is logged by the .catch of line 133.
TelemetrySucceeds ==
  /\ tel = "pending"
  /\ tel' = "ok"
  /\ UNCHANGED <<org, call, stack, log>>

\* Line 133 without the .catch: the rejection of the POST ends the
\* invocation with an error.
MutTelemetryFails ==
  /\ tel = "pending"
  /\ tel' = "failed"
  /\ stack' = SetTop([Top EXCEPT !.pc = "done", !.result = Rejected])
  /\ UNCHANGED <<org, call, log>>

TelemetryFails ==
  /\ tel = "pending"
  /\ tel' = "failed"
  /\ UNCHANGED <<org, call, stack, log>>

(* ───────────── the AI path, lines 143-211 ───────────── *)

\* An awaited fetch settled: a rejection enters the catch block, a response
\* becomes origResp and the handler goes on.
Deliver(f, o, next) ==
  IF o.kind = "error" THEN [f EXCEPT !.pc = "catch"]
  ELSE [f EXCEPT !.pc = next, !.origResp = o.resp]

\* What a fetch to an origin other than the site's can settle with.
ExternalOutcomes == {Rejected} \cup { MkResult("resp", r) : r \in OriginResponses }

\* await fetchWithHost(...) for the primary origin or a redirect target:
\* the request cannot be built when its body stream is already used; a
\* request to the site itself invokes the handler again; any other is
\* answered by its origin.
Dispatch(ev, out, next) ==
  /\ UNCHANGED <<org, call, tel>>
  /\ IF BodyUnusable(Top, out)
     THEN /\ stack' = SetTop([Top EXCEPT !.pc = "catch"])
          /\ log' = Append(Logged(ev, out, FALSE),
                           Event("response", Depth, out, FALSE, Rejected))
     ELSE LET f == [Top EXCEPT !.bodyUsed = Top.bodyUsed \/ out.hasBody]
          IN IF out.url.origin = SiteOrigin
             THEN /\ Depth < MaxDepth
                  /\ stack' = Append(SetTop([f EXCEPT !.pc = next]), NewFrame(out))
                  /\ log' = Logged(ev, out, TRUE)
             ELSE \E o \in ExternalOutcomes :
                    /\ stack' = SetTop(Deliver(f, o, next))
                    /\ log' = Append(Logged(ev, out, TRUE),
                                     Event("response", Depth, out, TRUE, o))

\* Lines 145-156: the secondary-store fetch, its text and the fragment.
FetchAlt ==
  /\ Top.pc = "alt"
  /\ LET out == fetchWithHost(ALT_ORIGIN(org), Top.req.url, Top.req, FALSE, FALSE)
         f == [Top EXCEPT !.bodyUsed = Top.bodyUsed \/ out.hasBody]
     IN \/ /\ stack' = SetTop([f EXCEPT !.pc = "catch"])
           /\ log' = Append(log, Event("alt", Depth, out, ~BodyUnusable(Top, out),
                                       Rejected))
        \/ /\ ~BodyUnusable(Top, out)
           /\ \E altResp \in AltResponses :
                /\ stack' = SetTop([f EXCEPT
                     !.pc = "orig",
                     !.injectedHTML =
                        IF RespOk(altResp)
                        THEN extractElementOuterHTMLById(altResp.body, "optimized-for-ai")
                        ELSE <<>>])
                /\ log' = Append(log, Event("alt", Depth, out, TRUE,
                                            MkResult("resp", altResp)))
  /\ UNCHANGED <<org, call, tel>>

\* Lines 158-167: the primary-origin fetch.
FetchOrigin ==
  /\ Top.pc = "orig"
  /\ Dispatch("orig",
              fetchWithHost(OriginArg(Top.req.url.origin), Top.req.url, Top.req,
                            TRUE, TRUE),
              "redirect")

\* A nested invocation returned: its caller's await settles with the
\* response; when the nested invocation rejected, the platform either fails
\* the fetch or answers with its error page.
ReturnNested ==
  /\ Depth > 1
  /\ Top.pc = "done"
  /\ LET caller == stack[Depth - 1]
         outs == IF Top.result.kind = "error"
                 THEN {Rejected, MkResult("resp", PlatformError)}
                 ELSE {MkResult("resp", Top.result.resp)}
     IN \E o \in outs :
          /\ stack' = SubSeq(stack, 1, Depth - 2) \o <<Deliver(caller, o, caller.pc)>>
          /\ log' = Append(log, Event("response", Depth - 1, Top.req, TRUE, o))
  /\ UNCHANGED <<org, call, tel>>

\* Lines 169-185: one redirect hop.
Redirect ==
  /\ Top.pc = "redirect"
  /\ IF IsRedirect(Top.origResp) /\ HasLocation(Top.origResp)
     THEN IF \/ ~URLParses(Top.origResp.loc)
             \/ ~ProxiedParses(OriginArg(
                   ResolveURL(Top.origResp.loc, Top.req.url.origin).origin))
          THEN /\ Goto("catch")
               /\ log' = Logged("throw", Top.req, FALSE)
               /\ UNCHANGED <<org, call, tel>>
          ELSE LET canonURL == ResolveURL(Top.origResp.loc, Top.req.url.origin)
                   isSameOrigin == canonURL.origin = Top.req.url.origin
               IN Dispatch("refetch",
                           fetchWithHost(OriginArg(canonURL.origin), canonURL, Top.req,
                                         TRUE, isSameOrigin),
                           "decide")
     ELSE Goto("decide") /\ UNCHANGED <<org, call, log, tel>>

\* Lines 187-207: inject and finalize, or serve the original. Reading the
\* origin body can reject, and the Response constructor throws for a null
\* body status; both enter the catch block.
Decide ==
  /\ Top.pc = "decide"
  /\ LET used == Event("decide", Depth, Top.req, FALSE, MkResult("resp", Top.origResp))
     IN IF ShouldInject(Top.injectedHTML, Top.origResp)
        THEN /\ \/ /\ Goto("catch")
                   /\ log' = Append(Append(log, used),
                                    Event("throw", Depth, Top.req, FALSE, NoResult))
                \/ /\ NullBodyStatus(Top.origResp.status)
                   /\ Goto("catch")
                   /\ log' = Append(Append(log, used),
                                    Event("throw", Depth, Top.req, FALSE, NoResult))
                \/ /\ ~NullBodyStatus(Top.origResp.status)
                   /\ stack' = SetTop([Top EXCEPT
                        !.pc = "done",
                        !.result = MkResult("inject",
                                     InjectedResponse(Top.origResp, Top.injectedHTML))])
                   /\ log' = Append(Append(log, used),
                                    Event("finalize", Depth, Top.req, FALSE, NoResult))
             /\ UNCHANGED <<org, call, tel>>
        ELSE \E o \in VerbatimOutcomes(Top) :
               /\ stack' = SetTop([Top EXCEPT !.pc = "done", !.result = o,
                                    !.bodyUsed = Top.bodyUsed \/ Top.req.hasBody])
               /\ log' = Append(Append(log, used),
                                Event("verbatim", Depth, Top.req,
                                      ~BodyUnusable(Top, Top.req), o))
               /\ UNCHANGED <<org, call, tel>>

\* Lines 208-211.
Catch ==
  /\ Top.pc = "catch"
  /\ \E o \in VerbatimOutcomes(Top) :
       /\ stack' = SetTop([Top EXCEPT !.pc = "done", !.result = o,
                                      !.bodyUsed = Top.bodyUsed \/ Top.req.hasBody])
       /\ log' = Append(Logged("catch", Top.req, FALSE),
                        Event("verbatim", Depth, Top.req,
                              ~BodyUnusable(Top, Top.req), o))
  /\ UNCHANGED <<org, call, tel>>

Next ==
  \/ BypassCheck \/ ConfigCheck \/ StaticCheck \/ Detect \/ LogVisit \/ Route
  \/ TelemetrySucceeds \/ TelemetryFails
  \/ FetchAlt \/ FetchOrigin \/ ReturnNested \/ Redirect \/ Decide \/ Catch

Spec == Init /\ [][Next]_vars

NextClassifier ==
  \/ BypassCheck \/ ConfigCheck \/ StaticCheck \/ Detect \/ LogVisit \/ Route
  \/ TelemetrySucceeds \/ TelemetryFails

SpecClassifier == InitClassifier /\ [][NextClassifier]_vars

(* ───────────── the helper functions called on their own ───────────── *)

\* Documents of at most n tokens, closing body tags in two spellings.
DocTokens == { "<p>X</p>", "</body>", "</BODY>" }
DocsUpTo(n) == UNION { [1..k -> DocTokens] : k \in 0..n }

\* Fragments: none, the element of the secondary store, and elements whose
\* text holds a dollar sign followed by an ampersand or by a dollar sign.
HelperFragments ==
  { <<>>, <<Fragment>>, <<"<b id=optimized-for-ai>", "$&", "nbsp;5</b>">>,
    <<"<b id=optimized-for-ai>", "$$", "</b>">> }

\* Responses handed to finalizeResponse.
HelperVaries ==
  { <<>>, <<"Accept-Encoding">>, <<"User-Agent">>, <<"Accept-Encoding", "User-Agent">>,
    <<"User-Agent", "Accept-Encoding">> }

HelperResponses ==
  { MkResponse(st, <<"text/html">>, Null, v, cc, Null, cl, DocWithBody) :
      st \in {200, 404}, v \in HelperVaries, cc \in {Null, "public, max-age=600"},
      cl \in {Null, "120"} }

\* Origin arguments of fetchWithHost: the site, an origin with the http
\* scheme, and the secondary store.
HelperOrigins == { OriginArg(SiteOrigin), OriginArg(OtherOrigin), ALT_ORIGIN(<<"acme">>) }

HelperRequests ==
  { MkRequest(sh[1], sh[2], <<"GPTBot/1.0">>, b, <<"site.example">>,
              MkURL(SiteOrigin, <<"/page">>, <<>>)) :
      sh \in Shapes, b \in BypassValues }

HelperCalls ==
  { [fn |-> "injectHTML", args |-> [originalHTML |-> d, injectedHTML |-> g],
     returned |-> FALSE, ret |-> <<>>] :
      d \in DocsUpTo(MaxDocLen), g \in HelperFragments }
  \cup
  { [fn |-> "finalizeResponse", args |-> [resp |-> r, varyUA |-> v, aiVariant |-> a],
     returned |-> FALSE, ret |-> <<>>] :
      r \in HelperResponses, v \in BOOLEAN, a \in BOOLEAN }
  \cup
  { [fn |-> "fetchWithHost",
     args |-> [origin |-> o, req |-> q, fixHost |-> h, bypassEdgeFunction |-> b],
     returned |-> FALSE, ret |-> <<>>] :
      o \in HelperOrigins, q \in HelperRequests, h \in BOOLEAN, b \in BOOLEAN }

InitHelpers ==
  /\ org = <<"acme">>
  /\ stack = <<>>
  /\ log = <<>>
  /\ tel = "none"
  /\ call \in HelperCalls

Return(value) ==
  /\ call' = [call EXCEPT !.returned = TRUE, !.ret = value]
  /\ UNCHANGED <<org, stack, log, tel>>

CallInjectHTML ==
  /\ call.fn = "injectHTML" /\ ~call.returned
  /\ Return(injectHTML(call.args.originalHTML, call.args.injectedHTML))

CallFinalizeResponse ==
  /\ call.fn = "finalizeResponse" /\ ~call.returned
  /\ Return(finalizeResponse(call.args.resp, call.args.varyUA, call.args.aiVariant))

\* fetchWithHost up to its call of fetch: the request and its redirect mode.
CallFetchWithHost ==
  /\ call.fn = "fetchWithHost" /\ ~call.returned
  /\ Return([request |-> fetchWithHost(call.args.origin, call.args.req.url,
                                       call.args.req, call.args.fixHost,
                                       call.args.bypassEdgeFunction),
             redirect |-> RedirectMode])

NextHelpers == CallInjectHTML \/ CallFinalizeResponse \/ CallFetchWithHost

SpecHelpers == InitHelpers /\ [][NextHelpers]_vars

(* ───────────── vocabulary of the properties ───────────── *)

\* The invocation that handles the client's request, and its end.
Client == stack[1]
ClientDone == Depth = 1 /\ Client.pc = "done"

\* Positions of the log holding an event of invocation depth d.
EventsAt(ev, d) == { i \in 1..Len(log) : log[i].ev = ev /\ log[i].depth = d }
Events(ev) == { i \in 1..Len(log) : log[i].ev = ev }

\* The events of the AI path and of the telemetry.
ProcessingEvents ==
  {"classify", "telemetry", "alt", "orig", "refetch", "decide", "finalize"}

\* The header X-Internal-Fetch: true is on the request.
Marked(req) == req.bypassHdr = "true"

\* The organization identifier is empty or made of blanks only.
BlankOrg == \A i \in 1..Len(org) : org[i] = " "

\* An invocation that ended with return fetch(request): its result is what
\* that one fetch settled with, and the fetch is the last entry of the log
\* made by the invocation.
EndedByVerbatim(d) ==
  /\ EventsAt("verbatim", d) # {}
  /\ LET last == CHOOSE i \in EventsAt("verbatim", d) :
                   \A j \in EventsAt("verbatim", d) : j <= i
     IN /\ log[last].req = stack[d].req
        /\ log[last].outcome = stack[d].result
        /\ stack[d].result.kind \in {"pass", "error"}

(* ───────────── C1 ───────────── *)

\* C1: an invocation whose inbound request carries X-Internal-Fetch: true,
\* whatever its user-agent, query, path and the configuration, does one
\* verbatim fetch of the request and returns what it settles with; it never
\* classifies, sends telemetry, or calls fetchWithHost.
C1_MarkedRequestPassesThrough ==
  \A d \in 1..Depth :
    Marked(stack[d].req) =>
      /\ stack[d].pc \in {"bypass", "done"}
      /\ ~stack[d].isAIVisitor /\ stack[d].botType = ""
      /\ stack[d].injectedHTML = <<>> /\ stack[d].origResp = NoResp
      /\ stack[d].pc = "done" => d = Depth /\ EndedByVerbatim(d)
      /\ d = 1 =>
           /\ tel = "none"
           /\ \A i \in 1..Len(log) : log[i].ev = "verbatim" /\ log[i].req = Client.req
           /\ Len(log) = IF Client.pc = "done" THEN 1 ELSE 0

\* A marked client request of an AI user-agent, with the configuration set,
\* has been answered.
C1_Witness ==
  /\ ClientDone /\ Marked(Client.req) /\ org = <<"acme">>
  /\ RegexTestI(GPTBOT_UA_RE, Client.req.ua)
  /\ Client.result.kind = "pass"

(* ───────────── C2 ───────────── *)

\* The client's request went past the marker, configuration and static
\* checks and was classified as no AI visitor.
ClassifiedNone ==
  /\ Client.pc \in {"log", "route", "done"}
  /\ ~Client.isAIVisitor

\* C2: a request classified as None is fetched verbatim exactly once and the
\* response is returned as the origin sent it: no telemetry, no
\* fetchWithHost call, no finalizeResponse (Vary, Cache-Control, Pragma and
\* Content-Length are the origin's).
C2_NoneClassifiedUnchanged ==
  ClassifiedNone =>
    /\ tel = "none"
    /\ \A i \in 1..Len(log) : log[i].ev \in {"classify", "verbatim"} /\ log[i].depth = 1
    /\ Cardinality(Events("verbatim")) = (IF Client.pc = "done" THEN 1 ELSE 0)
    /\ Client.pc = "done" =>
         /\ EndedByVerbatim(1)
         /\ \A i \in Events("verbatim") : log[i].sent

\* A None-classified request was answered with an origin response carrying
\* its own Content-Length and Cache-Control.
C2_Witness ==
  /\ ClientDone /\ ClassifiedNone
  /\ Client.result.kind = "pass"
  /\ Client.result.resp.cl = "64"
  /\ Client.result.resp.cc = "public, max-age=600"

(* ───────────── C3 ───────────── *)

\* The Content-Type says HTML.
HtmlType(resp) == \E i \in 1..Len(resp.ct) : resp.ct[i] = "text/html"

\* The client's request was classified as an AI visitor and answered.
AgentAnswered == ClientDone /\ Client.isAIVisitor

\* The handler took the inject-or-fallback decision on an HTML response.
DecidedOnHtml == \E i \in EventsAt("decide", 1) : HtmlType(log[i].outcome.resp)

\* Building the injected response raised an error after the decision.
ComposeFailed ==
  \E i \in EventsAt("decide", 1) : \E j \in EventsAt("throw", 1) : j > i

\* What C3 says besides the condition of the injection: the decision comes
\* after the secondary-store fetch and after every primary-origin fetch has
\* settled, and the answer is either the injected response or what exactly
\* one fetch(request) settled with, never both.
C3_OrderAndExclusion ==
  /\ \A i \in EventsAt("decide", 1) :
       /\ log[i].outcome.resp = Client.origResp
       /\ \E j \in EventsAt("alt", 1) : j < i
       /\ \E j \in EventsAt("response", 1) : j < i
       /\ \A j \in EventsAt("alt", 1) \cup EventsAt("orig", 1)
                   \cup EventsAt("refetch", 1) \cup EventsAt("response", 1) : j < i
       /\ Cardinality(EventsAt("orig", 1) \cup EventsAt("refetch", 1))
            = Cardinality(EventsAt("response", 1))
  /\ AgentAnswered =>
       IF Client.result.kind = "inject"
       THEN /\ EventsAt("verbatim", 1) = {}
            /\ Cardinality(EventsAt("finalize", 1)) = 1
       ELSE /\ Cardinality(EventsAt("verbatim", 1)) = 1
            /\ EventsAt("finalize", 1) = {}
            /\ EndedByVerbatim(1)

\* C3 as amended: a classified request is answered with the injected
\* response exactly when the fragment is not empty, the primary-origin
\* response the decision used is HTML, and building the injected response
\* raised no error; otherwise with what exactly one fetch(request) settled
\* with; the decision follows both fetches.
C3_InjectIffFragmentHtmlAndNoError ==
  /\ C3_OrderAndExclusion
  /\ AgentAnswered =>
       (Client.result.kind = "inject"
          <=> Client.injectedHTML # <<>> /\ DecidedOnHtml /\ ~ComposeFailed)

\* C3 as stated: injected exactly when the fragment is not empty and the
\* decision's response is HTML.
C3_AsStated ==
  /\ C3_OrderAndExclusion
  /\ AgentAnswered =>
       (Client.result.kind = "inject" <=> Client.injectedHTML # <<>> /\ DecidedOnHtml)

\* A classified request was answered with an injected response.
C3_Witness ==
  /\ AgentAnswered
  /\ Client.result.kind = "inject"
  /\ Client.injectedHTML = <<Fragment>>
  /\ HtmlType(Client.origResp)

(* ───────────── C4 ───────────── *)

\* C4: when a step of the AI path raised an error, the classified request
\* is answered as a non-agent request is: with what a verbatim fetch of the
\* intact inbound request settles with, never with an error of the handler.
C4_ErrorFallsBackToPassThrough ==
  AgentAnswered /\ EventsAt("catch", 1) # {} =>
    \E i \in EventsAt("verbatim", 1) : log[i].sent /\ log[i].outcome = Client.result

(* ───────────── C5 ───────────── *)

\* C5: the telemetry POST is sent at most once, failed or not, and in every
\* state of it (pending, succeeded, failed) the answer is the injected
\* response built from the origin response, or what the verbatim fetch
\* settled with: no outcome of the POST reaches the answer.
C5_TelemetryDetached ==
  /\ Cardinality(Events("telemetry")) <= 1
  /\ tel = "none" <=> Events("telemetry") = {}
  /\ ClientDone =>
       IF EventsAt("finalize", 1) # {}
       THEN /\ Client.result.kind = "inject"
            /\ Client.result.resp.status = Client.origResp.status
            /\ Client.result.resp.ct = Client.origResp.ct
       ELSE EndedByVerbatim(1)

\* The injected answer was returned while the telemetry POST was pending.
C5_Witness ==
  /\ ClientDone /\ tel = "pending" /\ Client.result.kind = "inject"

(* ───────────── C6 ───────────── *)

\* The primary-origin responses in the order they settled.
ResponseAt(k) ==
  LET R == EventsAt("response", 1)
  IN log[CHOOSE i \in R : Cardinality({ j \in R : j <= i }) = k].outcome

\* The first primary-origin fetch settled with a response and line 170-185
\* ran.
RedirectHandled ==
  /\ Depth = 1
  /\ Client.pc \in {"decide", "catch", "done"}
  /\ EventsAt("response", 1) # {}
  /\ ResponseAt(1).kind = "resp"

RedirectStatus(resp) == resp.status \in 300..399

\* The re-fetch goes to the Location resolved against the primary origin:
\* its path and query on its origin, the Host header taken from that
\* origin, the loop marker set, and the method of the inbound request.
RefetchTargets(loc) ==
  \A i \in EventsAt("refetch", 1) :
    LET u == ResolveURL(loc, Client.req.url.origin)
    IN /\ log[i].req.url = u
       /\ log[i].req.host # <<>>
       /\ log[i].req.host[Len(log[i].req.host)] = u.origin.host
       /\ log[i].req.bypassHdr = "true"
       /\ log[i].req.method = Client.req.method

\* The Location header is present, not empty, and resolves to an http or
\* https URL.
UsableLocation(resp) ==
  /\ resp.loc # Null /\ resp.loc # "" /\ URLParses(resp.loc)
  /\ ResolveURL(resp.loc, Client.req.url.origin).origin.scheme \in {"http", "https"}

\* The first responses that are followed by a re-fetch: as C6 states it,
\* every 3xx with a Location header; as amended, those whose Location is
\* usable.
Followed(resp, asStated) ==
  /\ RedirectStatus(resp)
  /\ IF asStated THEN resp.loc # Null ELSE UsableLocation(resp)

\* What holds of every redirect handling: never more than one re-fetch, and
\* the decision uses the second response after a re-fetch, the first
\* otherwise.
RedirectRule(asStated) ==
  /\ Cardinality(EventsAt("orig", 1)) <= 1
  /\ Cardinality(EventsAt("refetch", 1)) <= 1
  /\ Cardinality(EventsAt("response", 1)) <= 2
  /\ RedirectHandled =>
       LET first == ResponseAt(1).resp
       IN IF Followed(first, asStated)
          THEN /\ Cardinality(EventsAt("refetch", 1)) = 1
               /\ Cardinality(EventsAt("response", 1)) = 2
               /\ RefetchTargets(first.loc)
               /\ \A i \in EventsAt("decide", 1) :
                    /\ ResponseAt(2).kind = "resp"
                    /\ log[i].outcome.resp = ResponseAt(2).resp
          ELSE /\ EventsAt("refetch", 1) = {}
               /\ Cardinality(EventsAt("response", 1)) = 1
               /\ \A i \in EventsAt("decide", 1) : log[i].outcome.resp = first

\* C6 as amended: a first response that is a 3xx with a non-empty Location
\* that resolves to an http or https URL is followed by exactly one further
\* fetch, to the resolved URL, and the decision uses that second response
\* only, redirect or not; a 3xx with no Location, an empty one or one that
\* does not resolve so, and any other status, cause no further fetch (a
\* Location that is not empty and does not resolve so raises an error and
\* the request falls back without a decision).
C6_OneRedirectHop ==
  /\ RedirectRule(FALSE)
  /\ RedirectHandled /\ RedirectStatus(ResponseAt(1).resp)
       /\ ResponseAt(1).resp.loc \notin {Null, ""}
       /\ ~UsableLocation(ResponseAt(1).resp)
     => EventsAt("decide", 1) = {} /\ EventsAt("throw", 1) # {}

\* C6 as stated: every 3xx with a Location header is followed by exactly
\* one further fetch.
C6_AsStated == RedirectRule(TRUE)

\* A redirect was followed, the second response was a redirect too, and the
\* decision used it.
C6_Witness ==
  /\ ClientDone
  /\ Cardinality(EventsAt("refetch", 1)) = 1
  /\ \E i \in EventsAt("decide", 1) :
       /\ log[i].outcome.resp.status = 302
       /\ log[i].outcome.resp.loc = "/new-path"
       /\ log[i].outcome.resp = ResponseAt(2).resp

(* ───────────── C7 ───────────── *)

\* C7: with the site's origin served by this handler, every nested
\* invocation carries the marker and only passes through, so the AI path
\* runs in the client's invocation only, invocations nest no deeper than
\* one level, and one client request causes at most one secondary-store
\* fetch and two primary-origin fetches.
C7_NoRecursion ==
  /\ Depth <= 2
  /\ \A d \in 2..Depth :
       /\ Marked(stack[d].req)
       /\ stack[d].pc \in {"bypass", "done"}
       /\ stack[d].req.url.origin = SiteOrigin
  /\ \A i \in 1..Len(log) :
       /\ log[i].ev \in ProcessingEvents => log[i].depth = 1
       /\ log[i].depth > 1 => log[i].ev = "verbatim"
  /\ Cardinality(Events("alt")) <= 1
  /\ Cardinality(Events("orig") \cup Events("refetch")) <= 2

\* Both primary-origin fetches of one client request were served by nested
\* invocations of the handler, and the client was answered.
C7_Witness ==
  /\ ClientDone
  /\ Cardinality(Events("orig") \cup Events("refetch")) = 2
  /\ \A i \in Events("orig") \cup Events("refetch") : log[i].req.url.origin = SiteOrigin
  /\ Cardinality({ i \in 1..Len(log) : log[i].depth = 2 /\ log[i].ev = "verbatim" }) = 2

(* ───────────── C8 ───────────── *)

\* The patterns in the order the categories are tried, with the category
\* each stands for.
PatternOrder ==
  << <<"chatgpt-user/1.0", "ChatGPT-User">>, <<"gptbot/1.0", "GPTBot">>,
     <<"google-extended", "Google-Extended">>, <<"bingpreview", "BingPreview">>,
     <<"perplexitybot", "PerplexityBot">>, <<"claude-user", "Claude-User">>,
     <<"claude-web", "Claude-Web">>, <<"claudebot", "ClaudeBot">> >>

PatternMatches(ua, k) == \E i \in 1..Len(ua) : Lower(ua[i]) = PatternOrder[k][1]

\* The category of the first pattern, in that order, that the user-agent
\* matches; None when it matches no pattern.
FirstCategory(ua) ==
  IF \E k \in 1..Len(PatternOrder) : PatternMatches(ua, k)
  THEN PatternOrder[CHOOSE k \in 1..Len(PatternOrder) :
                      /\ PatternMatches(ua, k)
                      /\ \A j \in 1..(k - 1) : ~PatternMatches(ua, j)][2]
  ELSE "None"

\* The user-agent query parameter of the client's request, null when absent.
OverrideValue == SearchGet(Client.req.url.search, "user-agent")

\* The handler is past classification and the telemetry block.
Classified == EventsAt("classify", 1) # {} /\ Client.pc # "log"

\* The client's request is classified as the user-agent alone says.
ClassifiedByUserAgent ==
  LET c == FirstCategory(Client.req.ua)
  IN /\ c = "None" <=> ~Client.isAIVisitor
     /\ c # "None" => Client.botType = c /\ tel # "none"
     /\ c = "None" => Client.botType = "" /\ tel = "none"
     /\ (Client.pc = "alt" \/ Depth > 1) => c # "None"
     /\ (Depth = 1 /\ Client.pc = "done" /\ EventsAt("alt", 1) = {}) => c = "None"

\* C8: without an override query value, the category is the one of the
\* first pattern, in the fixed order, that the user-agent matches, None
\* when none matches, and the request takes the agent path exactly when the
\* category is not None.
C8_FirstMatchingPattern ==
  Classified /\ OverrideValue = Null => ClassifiedByUserAgent

\* A user-agent matching two patterns got the category of the pattern that
\* comes first in the order, not the one that comes first in the text.
C8_Witness ==
  /\ Client.pc = "alt"
  /\ OverrideValue = Null
  /\ Client.req.ua = <<"CLAUDEBOT", "GPTBot/1.0">>
  /\ Client.botType = "GPTBot"

(* ───────────── C9 ───────────── *)

\* The override is the token chatgpt, in any case.
OverrideIsChatGPT == OverrideValue # Null /\ Lower(OverrideValue) = "chatgpt"

\* C9 as amended: the override user-agent=chatgpt, compared without case,
\* is accepted whatever the user-agent: the category is ChatGPT with a
\* user-agent that matches no pattern and also with one that matches
\* another pattern; any other override value leaves the classification to
\* the user-agent.
C9_OverrideForcesChatGPT ==
  Classified =>
    /\ OverrideIsChatGPT =>
         /\ Client.isAIVisitor
         /\ Client.botType = "ChatGPT-User"
         /\ tel # "none"
         /\ ~(Depth = 1 /\ Client.pc = "done" /\ EventsAt("alt", 1) = {})
    /\ OverrideValue # Null /\ ~OverrideIsChatGPT => ClassifiedByUserAgent

\* C9 as stated: the override is accepted only when no pattern matches; a
\* user-agent that matches a pattern keeps that pattern's category.
C9_AsStated ==
  Classified =>
    /\ OverrideIsChatGPT /\ FirstCategory(Client.req.ua) = "None" =>
         Client.isAIVisitor /\ Client.botType = "ChatGPT-User"
    /\ OverrideIsChatGPT /\ FirstCategory(Client.req.ua) # "None" =>
         Client.botType = FirstCategory(Client.req.ua)
    /\ OverrideValue # Null /\ ~OverrideIsChatGPT => ClassifiedByUserAgent

\* A GPTBot user-agent with the override in capitals was classified ChatGPT.
C9_Witness ==
  /\ Client.pc = "alt"
  /\ OverrideValue = "ChatGPT"
  /\ Client.req.ua = <<"GPTBot/1.0">>
  /\ Client.botType = "ChatGPT-User"

(* ───────────── C10 ───────────── *)

\* C10: with the organization identifier unset, empty or blank, a request
\* without the marker is fetched verbatim once, intact, and answered with
\* what that fetch settles with; nothing is classified, no telemetry is
\* sent and fetchWithHost is never called.
C10_BlankConfigPassesThrough ==
  BlankOrg /\ ~Marked(Client.req) =>
    /\ Depth = 1
    /\ Client.pc \in {"bypass", "config", "done"}
    /\ ~Client.isAIVisitor /\ Client.botType = ""
    /\ Client.injectedHTML = <<>> /\ Client.origResp = NoResp
    /\ tel = "none"
    /\ \A i \in 1..Len(log) :
         log[i].ev = "verbatim" /\ log[i].req = Client.req /\ log[i].sent
    /\ Len(log) = (IF Client.pc = "done" THEN 1 ELSE 0)
    /\ Client.pc = "done" => EndedByVerbatim(1)

\* With a blank identifier, a POST with a body from an AI user-agent was
\* passed through and answered by the origin.
C10_Witness ==
  /\ ClientDone /\ org = <<" ">> /\ ~Marked(Client.req)
  /\ RegexTestI(GPTBOT_UA_RE, Client.req.ua)
  /\ Client.req.method = "POST" /\ Client.req.hasBody
  /\ Client.result.kind = "pass"

(* ───────────── C11 ───────────── *)

\* The path of the client's request ends in .txt or .xml.
StaticPathRequest ==
  LET p == Client.req.url.path
  IN p # <<>> /\ p[Len(p)] \in {".txt", ".xml"}

\* C11: a request whose path ends in .txt or .xml is fetched verbatim once,
\* intact, and answered with what that fetch settles with, whatever its
\* user-agent, override, marker and the configuration: it is never
\* classified, no telemetry is sent and fetchWithHost is never called.
C11_StaticPathPassesThrough ==
  StaticPathRequest =>
    /\ Depth = 1
    /\ Client.pc \in {"bypass", "config", "static", "done"}
    /\ ~Client.isAIVisitor /\ Client.botType = ""
    /\ Client.injectedHTML = <<>> /\ Client.origResp = NoResp
    /\ tel = "none"
    /\ \A i \in 1..Len(log) :
         log[i].ev = "verbatim" /\ log[i].req = Client.req /\ log[i].sent
    /\ Len(log) = (IF Client.pc = "done" THEN 1 ELSE 0)
    /\ Client.pc = "done" => EndedByVerbatim(1)

\* With the configuration set and no marker, an .xml request of an AI
\* user-agent with the chatgpt override was passed through and answered.
C11_Witness ==
  /\ ClientDone /\ org = <<"acme">> /\ ~Marked(Client.req)
  /\ Client.req.url.path = <<"/feed", ".xml">>
  /\ RegexTestI(GPTBOT_UA_RE, Client.req.ua)
  /\ OverrideIsChatGPT
  /\ Client.result.kind = "pass"

(* ───────────── C12 ───────────── *)

\* The body holds the fragment of the secondary store.
BodyHasFragment(resp) == \E i \in 1..Len(resp.body) : resp.body[i] = Fragment

\* The headers of an agent-specific variant: Cache-Control private and not
\* storable, Pragma no-cache, User-Agent listed in Vary, no Content-Length.
VariantHeaders(resp) ==
  /\ resp.cc = "private, no-store, max-age=0"
  /\ resp.pragma = "no-cache"
  /\ \E i \in 1..Len(resp.vary) : resp.vary[i] = "User-Agent"
  /\ resp.cl = Null

\* C12: a response returned by an invocation of the handler whose body
\* holds the injected fragment has Cache-Control private, no-store, Pragma
\* no-cache, a Vary that lists User-Agent and no Content-Length, whatever
\* cache headers the origin response had; every injected answer holds the
\* fragment and is such a response.
C12_VariantNeverCacheable ==
  \A d \in 1..Depth :
    /\ stack[d].result.kind = "inject" => BodyHasFragment(stack[d].result.resp)
    /\ stack[d].result.kind # "error" /\ BodyHasFragment(stack[d].result.resp) =>
         /\ stack[d].result.kind = "inject"
         /\ VariantHeaders(stack[d].result.resp)

\* An origin response with a public Cache-Control, a Vary and a
\* Content-Length was answered with the fragment injected.
C12_Witness ==
  /\ ClientDone /\ Client.result.kind = "inject"
  /\ Client.origResp.cc = "public, max-age=600"
  /\ Client.origResp.cl = "64"
  /\ Client.origResp.vary = <<"Accept-Encoding">>
  /\ BodyHasFragment(Client.result.resp)

(* ───────────── C13 ───────────── *)

\* finalizeResponse was called on its own and returned.
Finalized == call.fn = "finalizeResponse" /\ call.returned

\* How many times a value is listed in a header.
Listed(header, value) == Cardinality({ i \in 1..Len(header) : header[i] = value })

\* What C13 says of every call: status, body and the headers other than
\* Content-Length, Vary, Cache-Control and Pragma are the input's, there is
\* no Content-Length, and without varyUA the Vary header is the input's.
FinalizerFrame ==
  LET in == call.args.resp
      out == call.ret
  IN /\ out.status = in.status /\ out.body = in.body
     /\ out.ct = in.ct /\ out.loc = in.loc
     /\ out.cl = Null
     /\ ~call.args.varyUA => out.vary = in.vary

\* C13 as amended: the finalizer returns the status and body of its input
\* and no Content-Length; with varyUA set the Vary header is the input's
\* values, in their order, followed by User-Agent, so no value is dropped
\* and User-Agent is listed once more than in the input: twice when the
\* input already listed it.
C13_VaryAppendsUserAgent ==
  Finalized =>
    /\ FinalizerFrame
    /\ call.args.varyUA =>
         LET in == call.args.resp.vary
             out == call.ret.vary
         IN /\ Len(out) = Len(in) + 1
            /\ \A i \in 1..Len(in) : out[i] = in[i]
            /\ out[Len(out)] = "User-Agent"
            /\ Listed(out, "User-Agent") = Listed(in, "User-Agent") + 1

\* C13 as stated: with varyUA set every value of the input's Vary is kept
\* and User-Agent is listed exactly once.
C13_AsStated ==
  Finalized =>
    /\ FinalizerFrame
    /\ call.args.varyUA =>
         /\ \A i \in 1..Len(call.args.resp.vary) :
              Listed(call.ret.vary, call.args.resp.vary[i]) >= 1
         /\ Listed(call.ret.vary, "User-Agent") = 1

\* A response with a Content-Length and a Vary of one other value was
\* finalized with varyUA set.
C13_Witness ==
  /\ Finalized /\ call.args.varyUA
  /\ call.args.resp.cl = "120"
  /\ call.args.resp.vary = <<"Accept-Encoding">>
  /\ call.ret.vary = <<"Accept-Encoding", "User-Agent">>

(* ───────────── C14 ───────────── *)

\* The secondary-store fetch rejected or answered with a status outside
\* 200..299.
AltFailed ==
  \E i \in EventsAt("alt", 1) :
    \/ log[i].outcome.kind = "error"
    \/ log[i].outcome.resp.status \notin 200..299

\* A primary-origin fetch rejected.
OriginRejected == \E i \in EventsAt("response", 1) : log[i].outcome.kind = "error"

\* The decision used a primary-origin response of a status outside 200..299.
DecidedOnNon2xx ==
  \E i \in EventsAt("decide", 1) : log[i].outcome.resp.status \notin 200..299

\* The answer is what the pass-through fetch settled with and nothing was
\* injected.
FellBack == Client.result.kind # "inject" /\ EndedByVerbatim(1)

\* What holds of the failures of both calls: a rejected fetch of either
\* call enters the catch block, a secondary-store answer outside 200..299
\* leaves the fragment empty, and both end in the pass-through.
FailureRouting ==
  AgentAnswered =>
    /\ AltFailed => Client.injectedHTML = <<>> /\ FellBack
    /\ OriginRejected => EventsAt("catch", 1) # {} /\ FellBack
    /\ (\E i \in EventsAt("alt", 1) : log[i].outcome.kind = "error")
         => EventsAt("catch", 1) # {}

FetcherEvents == {"alt", "orig", "refetch"}

\* C15 as amended: the fetches issued through fetchWithHost (secondary
\* store, primary origin, redirect re-fetch) all carry X-Internal-Fetch:
\* true; the telemetry POST does not carry the header; a verbatim
\* pass-through re-issues the inbound request with the headers it came
\* with, so it carries the marker only when the inbound request did.
C15_MarkerOnFetcherCallsOnly ==
  \A i \in 1..Len(log) :
    /\ log[i].ev \in FetcherEvents => log[i].req.bypassHdr = "true"
    /\ log[i].ev = "telemetry" => log[i].req.bypassHdr = Null
    /\ log[i].ev = "verbatim" /\ log[i].depth = 1 =>
         log[i].req.bypassHdr = Client.req.bypassHdr
    /\ log[i].ev = "verbatim" /\ log[i].depth > 1 =>
         \E j \in 1..(i - 1) :
           /\ log[j].ev \in {"orig", "refetch"}
           /\ log[j].req = log[i].req

\* C15 as stated: every fetch the handler issues carries the marker.
C15_AsStated ==
  \A i \in 1..Len(log) :
    log[i].ev \in FetcherEvents \cup {"telemetry", "verbatim"} =>
      log[i].req.bypassHdr = "true"

\* An unmarked agent request caused a telemetry POST, both fetcher calls
\* and a pass-through fetch, and was answered.
C15_Witness ==
  /\ AgentAnswered /\ ~Marked(Client.req)
  /\ Events("telemetry") # {} /\ EventsAt("alt", 1) # {} /\ EventsAt("orig", 1) # {}
  /\ \E i \in EventsAt("verbatim", 1) : log[i].sent /\ log[i].req.bypassHdr = Null

(* ───────────── C16 ───────────── *)

\* fetchWithHost was called on its own and handed its request to fetch.
Fetched == call.fn = "fetchWithHost" /\ call.returned

\* C16: whatever the bypass argument (true, or false as when it is left
\* out), whatever the origin (the site, another origin, the secondary
\* store) and whatever X-Internal-Fetch the inbound request had, the
\* request fetchWithHost issues has X-Internal-Fetch: true and the redirect
\* mode manual, has no body for GET and HEAD, and for any other method the
\* body of the inbound request; method, user-agent, path and query are the
\* inbound request's.
C16_FetcherAlwaysMarks ==
  Fetched =>
    LET in == call.args.req
        out == call.ret.request
    IN /\ out.bypassHdr = "true"
       /\ call.ret.redirect = "manual"
       /\ in.method \in {"GET", "HEAD"} => ~out.hasBody
       /\ in.method \notin {"GET", "HEAD"} => out.hasBody = in.hasBody
       /\ out.method = in.method /\ out.ua = in.ua
       /\ out.url.origin = call.args.origin.origin
       /\ out.url.search = in.url.search

\* Called with the bypass argument false for another origin, on a request
\* that came with X-Internal-Fetch: false, the fetcher set the marker.
C16_Witness ==
  /\ Fetched
  /\ ~call.args.bypassEdgeFunction
  /\ call.args.origin = OriginArg(OtherOrigin)
  /\ call.args.req.bypassHdr = "false"
  /\ call.ret.request.bypassHdr = "true"

(* ───────────── C17 ───────────── *)

\* The category the classifier assigns to the client's request: ChatGPT
\* with the override, else the first pattern the user-agent matches.
AssignedCategory ==
  IF OverrideIsChatGPT THEN "ChatGPT-User" ELSE FirstCategory(Client.req.ua)

\* The client's request is bypassed, mis-configured, static or classified
\* None.
NotAVisit ==
  \/ Marked(Client.req) \/ BlankOrg \/ StaticPathRequest
  \/ AssignedCategory = "None"

\* C17: a request that is bypassed, mis-configured, static or classified
\* None causes no telemetry POST; any other request causes exactly one, in
\* the client's invocation, dispatched before the secondary-store fetch and
\* every primary-origin fetch, with the category the classifier assigned as
\* bot type, which is never None nor Unknown.
C17_OneTelemetryPerVisit ==
  /\ NotAVisit => Events("telemetry") = {} /\ tel = "none" /\ Client.botType = ""
  /\ ~NotAVisit /\ Client.pc \in {"route", "alt", "orig", "redirect", "decide", "catch", "done"} =>
       /\ Cardinality(Events("telemetry")) = 1
       /\ tel # "none"
       /\ Client.botType = AssignedCategory
       /\ Client.botType \notin {"None", "Unknown", ""}
  /\ Cardinality(Events("telemetry")) <= 1
  /\ \A i \in Events("telemetry") :
       /\ log[i].depth = 1
       /\ log[i].req.url = EXTERNAL_API_URL /\ log[i].req.method = "POST"
       /\ \A j \in Events("alt") \cup Events("orig") \cup Events("refetch") : i < j
       /\ \A j \in Events("verbatim") : i < j

\* A classified visit was answered after one telemetry POST, one
\* secondary-store fetch and two primary-origin fetches.
C17_Witness ==
  /\ AgentAnswered
  /\ Cardinality(Events("telemetry")) = 1
  /\ Client.botType = "GPTBot"
  /\ Cardinality(Events("alt")) = 1
  /\ Cardinality(Events("orig") \cup Events("refetch")) = 2

(* ───────────── C18 ───────────── *)

\* C18: the Host header of every primary-origin fetch and redirect
\* re-fetch (fixHost set) is the host name of the origin it goes to,
\* whether that origin has the http or the https scheme; the Host header of
\* the secondary-store fetch (fixHost not set) is the one of the inbound
\* request.
C18_HostIsTargetHostname ==
  \A i \in 1..Len(log) :
    /\ log[i].ev \in {"orig", "refetch"} =>
         log[i].req.host = <<log[i].req.url.origin.host>>
    /\ log[i].ev = "alt" => log[i].req.host = Client.req.host

(* ───────────── C19 ───────────── *)

\* C19: the AI-path fetches leave the inbound request as it came: while
\* the handler is between the secondary-store fetch and its answer the
\* body stream of the inbound request is unused, for every method, and the
\* pass-through that ends the AI path is sent with the inbound request's
\* method, headers, URL and body.
C19_InboundRequestIntact ==
  /\ \A d \in 1..Depth :
       stack[d].pc \in {"orig", "redirect", "decide", "catch"} => ~stack[d].bodyUsed
  /\ \A i \in EventsAt("verbatim", 1) :
       /\ log[i].req = Client.req
       /\ log[i].sent

(* ───────────── C20 ───────────── *)

\* injectHTML was called on its own and returned.
Injected == call.fn = "injectHTML" /\ call.returned

\* The positions of the closing body tags of a document, in any case.
BodyCloses(doc) == { i \in 1..Len(doc) : doc[i] \in {"</body>", "</BODY>", "</Body>"} }

\* The document with the fragment put, as it is, right before position k.
InsertedBefore(doc, frag, k) == SubSeq(doc, 1, k - 1) \o frag \o SubSeq(doc, k, Len(doc))

\* C20: with a fragment that is not empty the output is the document with
\* the fragment, as it is, right before the first closing body tag, the tag
\* as written and everything else unchanged, or the document followed by
\* the fragment when it has no closing body tag; with an empty fragment the
\* output is the document.
C20_InjectBeforeFirstBodyClose ==
  Injected =>
    LET doc == call.args.originalHTML
        frag == call.args.injectedHTML
    IN IF frag = <<>> THEN call.ret = doc
       ELSE IF BodyCloses(doc) = {} THEN call.ret = doc \o frag
       ELSE call.ret =
              InsertedBefore(doc, frag,
                             CHOOSE k \in BodyCloses(doc) : \A j \in BodyCloses(doc) : k <= j)

====
